---------------------------- MODULE Spec2Model ----------------------------
(***************************************************************************)
(* Model of functions/data-extractor/__init__.py: main() runs              *)
(* get_config_from_env, upload_test_file_to_blob and                       *)
(* test_postgres_connection in sequence.  The blob service and the         *)
(* PostgreSQL server are modelled as the state the calls act on; every     *)
(* client-library call may raise (a bounded number of injected faults).    *)
(* One run of main() is one pass of pc from "get_config" to "done".        *)
(***************************************************************************)
EXTENDS Integers, Sequences, FiniteSets, TLC

\* Bounds of the model.
MaxRuns == 2      \* runs of main() against the same two backends
MaxFaults == 2    \* client-library calls that raise for no backend-state reason

(***************************************************************************)
(* Values                                                                  *)
(***************************************************************************)
\* Python's None (os.getenv of an unset variable, connection = None).
None == "<None>"

\* `not value` for a str-or-None value (lines 49, 59).
Falsy(value) == value = None \/ value = ""

\* An exception object: its class, the call that raised it, and for the
\* ValueErrors of get_config_from_env the variable names its message joins.
Exc(type, op, names) == [type |-> type, op |-> op, names |-> names]
NoExc == Exc("NoExc", "", <<>>)

\* The environment variables the program reads (lines 41-46).
REQUIRED_STORAGE == "AZURE_STORAGE_CONNECTION_STRING"
EnvNames ==
    {"AZURE_STORAGE_CONNECTION_STRING", "POSTGRES_HOST", "POSTGRES_PORT",
     "POSTGRES_DB", "POSTGRES_USER", "POSTGRES_PASSWORD"}

\* Process environments: each variable unset (None), empty, or set to a value
\* of its own; POSTGRES_PORT may also be set to the default's text.
ValuesOf(name) ==
    CASE name = "AZURE_STORAGE_CONNECTION_STRING" -> {None, "", "UseDevelopmentStorage=true"}
      [] name = "POSTGRES_HOST" -> {None, "", "db.example"}
      [] name = "POSTGRES_PORT" -> {None, "", "5432", "6543"}
      [] name = "POSTGRES_DB" -> {None, "", "appdb"}
      [] name = "POSTGRES_USER" -> {None, "", "alice"}
      [] name = "POSTGRES_PASSWORD" -> {None, "", "s3cret"}

Environs ==
    {[n \in EnvNames |->
        CASE n = "AZURE_STORAGE_CONNECTION_STRING" -> a
          [] n = "POSTGRES_HOST" -> h
          [] n = "POSTGRES_PORT" -> p
          [] n = "POSTGRES_DB" -> d
          [] n = "POSTGRES_USER" -> u
          [] n = "POSTGRES_PASSWORD" -> w] :
      a \in ValuesOf("AZURE_STORAGE_CONNECTION_STRING"), h \in ValuesOf("POSTGRES_HOST"),
      p \in ValuesOf("POSTGRES_PORT"), d \in ValuesOf("POSTGRES_DB"),
      u \in ValuesOf("POSTGRES_USER"), w \in ValuesOf("POSTGRES_PASSWORD")}

\* os.getenv(name, default): the value when the variable is set (also when
\* it is set to the empty string), the default otherwise.
getenv(e, name, default) == IF e[name] = None THEN default ELSE e[name]

(***************************************************************************)
(* get_config_from_env (lines 37-70)                                       *)
(***************************************************************************)
\* A bug variant: POSTGRES_PORT read with `or '5432'`, replacing an empty value.
postgres_port_mutant(e) == IF Falsy(e["POSTGRES_PORT"]) THEN "5432" ELSE e["POSTGRES_PORT"]

\* line 43
postgres_port_of(e) == getenv(e, "POSTGRES_PORT", "5432")

\* lines 52-57, in the dict's insertion order.
postgres_required_vars == <<"POSTGRES_HOST", "POSTGRES_DB", "POSTGRES_USER", "POSTGRES_PASSWORD">>

\* line 59
IsMissing(e, var) == Falsy(getenv(e, var, None))
missing_vars(e) == SelectSeq(postgres_required_vars, LAMBDA var : IsMissing(e, var))

\* lines 63-70
ConfigRecord(e) ==
    [storage_connection_string |-> getenv(e, "AZURE_STORAGE_CONNECTION_STRING", None),
     postgres_host |-> getenv(e, "POSTGRES_HOST", None),
     postgres_port |-> postgres_port_of(e),
     postgres_db |-> getenv(e, "POSTGRES_DB", None),
     postgres_user |-> getenv(e, "POSTGRES_USER", None),
     postgres_password |-> getenv(e, "POSTGRES_PASSWORD", None)]

NoConfig ==
    [storage_connection_string |-> None, postgres_host |-> None, postgres_port |-> None,
     postgres_db |-> None, postgres_user |-> None, postgres_password |-> None]

\* The exception get_config_from_env raises on environment e, NoExc if none.
get_config_error(e) ==
    IF Falsy(getenv(e, REQUIRED_STORAGE, None))
    THEN Exc("ValueError", "get_config_from_env", <<REQUIRED_STORAGE>>)
    ELSE IF missing_vars(e) # <<>>
         THEN Exc("ValueError", "get_config_from_env", missing_vars(e))
         ELSE NoExc

(***************************************************************************)
(* State                                                                   *)
(***************************************************************************)
VARIABLES
    environ,          \* os.environ of the current run
    runs,             \* runs of main() started so far
    pc,               \* the statement main()'s call chain is at
    config,           \* main's `config`
    result,           \* what main() returned (None until it returns)
    raised,           \* the exception that propagated out of main()
    exc,              \* the exception in flight
    firstError,       \* the first exception of the run that its raise site did not swallow
    callLog,          \* the client-library calls of the run, with their outcome
    stages,           \* the stages main() entered in the run, in order
    okStages,         \* the stages that returned normally in the run
    log,              \* the logger records of the run
    blob_name,        \* upload_test_file_to_blob's `blob_name`
    test_content,     \* upload_test_file_to_blob's `test_content`
    connection,       \* test_postgres_connection's `connection`
    test_id,          \* test_postgres_connection's `test_id`
    inserted_id,      \* test_postgres_connection's `inserted_id`
    containerCreated, \* blob service: successful creations of test-container
    blobs,            \* blob service: the blobs of test-container
    tableExists,      \* database: test_table exists (committed)
    rows,             \* database: the committed rows of test_table, in commit order
    seq,              \* database: last value of the SERIAL sequence of test_table.id
    txn,              \* database: the open transaction of `connection`
    nextUuid,         \* uuid.uuid4(): identifiers handed out so far (random 122-bit
                      \* values, taken as never repeating)
    blobFaults,       \* faults injected into blob-client calls
    dbFaults,         \* faults injected into psycopg2 calls
    blobCalls,        \* calls of upload_test_file_to_blob so far
    dbCalls,          \* calls of test_postgres_connection so far
    reports           \* row ids reported by the calls of test_postgres_connection that returned

runVars == <<pc, config, result, raised, exc, firstError, callLog, stages, okStages, log,
             blob_name, test_content, connection, test_id, inserted_id>>
blobVars == <<containerCreated, blobs>>
dbVars == <<tableExists, rows, seq, txn>>
histVars == <<nextUuid, blobFaults, dbFaults, blobCalls, dbCalls, reports>>
vars == <<environ, runs, runVars, blobVars, dbVars, histVars>>

container_name == "test-container"

\* line 82: f"test-file-{uuid.uuid4()}.txt"
BlobName(id) == [prefix |-> "test-file-", id |-> id, suffix |-> ".txt"]
NoBlobName == [prefix |-> "", id |-> 0, suffix |-> ""]

\* lines 93-98: the text's only varying parts that identify it (the file id).
TestContent(id) == [file_id |-> id]
NoContent == [file_id |-> 0]

EmptyTxn == [createdTable |-> FALSE, rows |-> <<>>]

\* A library call may raise for no reason of the backend's state while the
\* fault budget lasts.
FaultChoices == IF blobFaults + dbFaults < MaxFaults THEN BOOLEAN ELSE {FALSE}

Call(op, err) == [op |-> op, err |-> err]
LogRec(level, text) == [level |-> level, text |-> text]

BlobOps == {"from_connection_string", "get_container_client", "create_container",
            "get_blob_client", "upload_blob"}
DbOps == {"connect", "cursor", "execute_create", "execute_insert", "fetchone",
          "commit", "rollback", "close"}

\* The first exception of the run, once e is raised and not swallowed.
FirstOf(e) == IF firstError = NoExc THEN e ELSE firstError

Init ==
    /\ environ \in Environs
    /\ runs = 1
    /\ pc = "get_config"
    /\ config = NoConfig
    /\ result = None
    /\ raised = NoExc
    /\ exc = NoExc
    /\ firstError = NoExc
    /\ callLog = <<>>
    /\ stages = <<>>
    /\ okStages = {}
    /\ log = <<>>
    /\ blob_name = NoBlobName
    /\ test_content = NoContent
    /\ connection = None
    /\ test_id = 0
    /\ inserted_id = 0
    /\ containerCreated = 0
    /\ blobs = {}
    /\ tableExists = FALSE
    /\ rows = <<>>
    /\ seq = 0
    /\ txn = EmptyTxn
    /\ nextUuid = 0
    /\ blobFaults = 0
    /\ dbFaults = 0
    /\ blobCalls = 0
    /\ dbCalls = 0
    /\ reports = <<>>

(***************************************************************************)
(* main (lines 14-35)                                                      *)
(***************************************************************************)
\* A bug variant: a failed object-store probe does not stop main().
main_next_mutant(stage, e) ==
    IF e # NoExc /\ stage # "blob" THEN "main_except"
    ELSE CASE stage = "config" -> "from_connection_string"
           [] stage = "blob" -> "connect"
           [] stage = "db" -> "main_return"

\* Where main() continues after a stage ended with exception e (NoExc: it
\* returned): lines 18-31 run the stages in sequence, line 33 catches.
main_next(stage, e) ==
    IF e # NoExc THEN "main_except"
    ELSE CASE stage = "config" -> "from_connection_string"
           [] stage = "blob" -> "connect"
           [] stage = "db" -> "main_return"

\* lines 20-21
Main_get_config ==
    /\ pc = "get_config"
    /\ LET e == get_config_error(environ) IN
        /\ stages' = Append(stages, "config")
        /\ exc' = e
        /\ firstError' = e
        /\ pc' = main_next("config", e)
        /\ IF e = NoExc
           THEN /\ config' = ConfigRecord(environ)
                /\ okStages' = okStages \cup {"config"}
                /\ log' = Append(log, LogRec("info", "config read"))
           ELSE UNCHANGED <<config, okStages, log>>
    /\ UNCHANGED <<environ, runs, result, raised, callLog, blob_name, test_content,
                   connection, test_id, inserted_id, blobVars, dbVars, histVars>>

\* A bug variant: the except clause logs and does not re-raise.
main_reraise_mutant(e) == NoExc

\* line 35: the bare `raise` re-raises the exception being handled, as it is.
main_reraise(e) == e

\* lines 33-35: log the error and re-raise it.
Main_except ==
    /\ pc = "main_except"
    /\ log' = Append(log, LogRec("error", exc))
    /\ raised' = main_reraise(exc)
    /\ pc' = "done"
    /\ UNCHANGED <<environ, runs, config, result, exc, firstError, callLog, stages, okStages,
                   blob_name, test_content, connection, test_id, inserted_id,
                   blobVars, dbVars, histVars>>

\* lines 29-31
Main_return ==
    /\ pc = "main_return"
    /\ log' = Append(log, LogRec("info", "postgres ok"))
    /\ result' = "Success"
    /\ pc' = "done"
    /\ UNCHANGED <<environ, runs, config, raised, exc, firstError, callLog, stages, okStages,
                   blob_name, test_content, connection, test_id, inserted_id,
                   blobVars, dbVars, histVars>>

\* line 170: the program is run again, in a new process, against the same
\* blob service and database.
StartRun ==
    /\ pc = "done"
    /\ runs < MaxRuns
    /\ runs' = runs + 1
    /\ environ' \in Environs
    /\ pc' = "get_config"
    /\ config' = NoConfig
    /\ result' = None
    /\ raised' = NoExc
    /\ exc' = NoExc
    /\ firstError' = NoExc
    /\ callLog' = <<>>
    /\ stages' = <<>>
    /\ okStages' = {}
    /\ log' = <<>>
    /\ blob_name' = NoBlobName
    /\ test_content' = NoContent
    /\ connection' = None
    /\ test_id' = 0
    /\ inserted_id' = 0
    /\ UNCHANGED <<blobVars, dbVars, histVars>>

(***************************************************************************)
(* upload_test_file_to_blob (lines 72-108)                                 *)
(***************************************************************************)
\* A bug variant: create_container called without the inner try/except.
create_container_tolerated_mutant(e) == FALSE

\* lines 86-90: `except Exception` swallows whatever create_container raises.
create_container_tolerated(e) == TRUE

\* What create_container raises: the injected fault, or the service's refusal
\* to create a container that exists.
create_container_error(fault) ==
    IF fault THEN Exc("ServiceError", "create_container", <<>>)
    ELSE IF containerCreated > 0 THEN Exc("ResourceExistsError", "create_container", <<>>)
    ELSE NoExc

\* What upload_blob raises: the injected fault, or the service's refusal to
\* write into a container that does not exist.
upload_blob_error(fault) ==
    IF fault THEN Exc("ServiceError", "upload_blob", <<>>)
    ELSE IF containerCreated = 0 THEN Exc("ResourceNotFoundError", "upload_blob", <<>>)
    ELSE NoExc

\* line 102: overwrite=True replaces a blob of the same name.
upload(bs, name, content) ==
    {b \in bs : b.name # name} \cup {[name |-> name, content |-> content]}

\* line 78
Blob_from_connection_string ==
    /\ pc = "from_connection_string"
    /\ stages' = Append(stages, "blob")
    /\ blobCalls' = blobCalls + 1
    /\ \E fault \in FaultChoices :
        LET e == IF fault THEN Exc("ClientError", "from_connection_string", <<>>) ELSE NoExc IN
        /\ blobFaults' = blobFaults + (IF fault THEN 1 ELSE 0)
        /\ callLog' = Append(callLog, Call("from_connection_string", e))
        /\ exc' = e
        /\ firstError' = IF e = NoExc THEN firstError ELSE FirstOf(e)
        /\ pc' = IF e = NoExc THEN "get_container_client" ELSE "blob_except"
    /\ UNCHANGED <<environ, runs, config, result, raised, okStages, log, blob_name,
                   test_content, connection, test_id, inserted_id, blobVars, dbVars,
                   nextUuid, dbFaults, dbCalls, reports>>

\* lines 81-85
Blob_get_container_client ==
    /\ pc = "get_container_client"
    /\ nextUuid' = nextUuid + 1
    /\ blob_name' = BlobName(nextUuid + 1)
    /\ \E fault \in FaultChoices :
        LET e == IF fault THEN Exc("ClientError", "get_container_client", <<>>) ELSE NoExc IN
        /\ blobFaults' = blobFaults + (IF fault THEN 1 ELSE 0)
        /\ callLog' = Append(callLog, Call("get_container_client", e))
        /\ exc' = e
        /\ firstError' = IF e = NoExc THEN firstError ELSE FirstOf(e)
        /\ pc' = IF e = NoExc THEN "create_container" ELSE "blob_except"
    /\ UNCHANGED <<environ, runs, config, result, raised, stages, okStages, log, test_content,
                   connection, test_id, inserted_id, blobVars, dbVars,
                   dbFaults, blobCalls, dbCalls, reports>>

\* lines 86-90
Blob_create_container ==
    /\ pc = "create_container"
    /\ \E fault \in FaultChoices :
        LET e == create_container_error(fault) IN
        /\ blobFaults' = blobFaults + (IF fault THEN 1 ELSE 0)
        /\ callLog' = Append(callLog, Call("create_container", e))
        /\ containerCreated' = IF e = NoExc THEN containerCreated + 1 ELSE containerCreated
        /\ IF e = NoExc
           THEN /\ log' = Append(log, LogRec("info", "container created"))
                /\ pc' = "get_blob_client"
                /\ UNCHANGED <<exc, firstError>>
           ELSE IF create_container_tolerated(e)
           THEN /\ log' = Append(log, LogRec("info", "container exists"))
                /\ pc' = "get_blob_client"
                /\ UNCHANGED <<exc, firstError>>
           ELSE /\ exc' = e
                /\ firstError' = FirstOf(e)
                /\ pc' = "blob_except"
                /\ UNCHANGED log
    /\ UNCHANGED <<environ, runs, config, result, raised, stages, okStages, blob_name,
                   test_content, connection, test_id, inserted_id, blobs, dbVars,
                   nextUuid, dbFaults, blobCalls, dbCalls, reports>>

\* lines 93-101
Blob_get_blob_client ==
    /\ pc = "get_blob_client"
    /\ nextUuid' = nextUuid + 1
    /\ test_content' = TestContent(nextUuid + 1)
    /\ \E fault \in FaultChoices :
        LET e == IF fault THEN Exc("ClientError", "get_blob_client", <<>>) ELSE NoExc IN
        /\ blobFaults' = blobFaults + (IF fault THEN 1 ELSE 0)
        /\ callLog' = Append(callLog, Call("get_blob_client", e))
        /\ exc' = e
        /\ firstError' = IF e = NoExc THEN firstError ELSE FirstOf(e)
        /\ pc' = IF e = NoExc THEN "upload_blob" ELSE "blob_except"
    /\ UNCHANGED <<environ, runs, config, result, raised, stages, okStages, log, blob_name,
                   connection, test_id, inserted_id, blobVars, dbVars,
                   dbFaults, blobCalls, dbCalls, reports>>

\* lines 102-104, and main's line 25 when the probe returns
Blob_upload_blob ==
    /\ pc = "upload_blob"
    /\ \E fault \in FaultChoices :
        LET e == upload_blob_error(fault) IN
        /\ blobFaults' = blobFaults + (IF fault THEN 1 ELSE 0)
        /\ callLog' = Append(callLog, Call("upload_blob", e))
        /\ exc' = e
        /\ firstError' = IF e = NoExc THEN firstError ELSE FirstOf(e)
        /\ IF e = NoExc
           THEN /\ blobs' = upload(blobs, blob_name, test_content)
                /\ okStages' = okStages \cup {"blob"}
                /\ log' = Append(log, LogRec("info", [uploaded |-> blob_name]))
                /\ pc' = main_next("blob", NoExc)
           ELSE /\ pc' = "blob_except"
                /\ UNCHANGED <<blobs, okStages, log>>
    /\ UNCHANGED <<environ, runs, config, result, raised, stages, blob_name, test_content,
                   connection, test_id, inserted_id, containerCreated, dbVars,
                   nextUuid, dbFaults, blobCalls, dbCalls, reports>>

\* lines 106-108: log the error and re-raise it to main.
Blob_except ==
    /\ pc = "blob_except"
    /\ log' = Append(log, LogRec("error", exc))
    /\ pc' = main_next("blob", exc)
    /\ UNCHANGED <<environ, runs, config, result, raised, exc, firstError, callLog, stages,
                   okStages, blob_name, test_content, connection, test_id, inserted_id,
                   blobVars, dbVars, histVars>>

(***************************************************************************)
(* test_postgres_connection (lines 110-166)                                *)
(***************************************************************************)
DbExc(fault, op) == IF fault THEN Exc("OperationalError", op, <<>>) ELSE NoExc

\* A bug variant: CREATE TABLE without IF NOT EXISTS fails on an existing table.
create_table_error_mutant(fault, exists) ==
    IF fault THEN Exc("OperationalError", "execute_create", <<>>)
    ELSE IF exists THEN Exc("DuplicateTable", "execute_create", <<>>)
    ELSE NoExc

\* lines 129-137: CREATE TABLE IF NOT EXISTS raises nothing for a table that
\* exists; only the injected fault makes the statement fail.
create_table_error(fault, exists) ==
    IF fault THEN Exc("OperationalError", "execute_create", <<>>) ELSE NoExc

\* A bug variant: the except clause does not roll back.
except_rolls_back_mutant(conn) == FALSE

\* line 160: `if connection:` in the except clause
except_rolls_back(conn) == conn # None

\* A bug variant: the connection is closed on the success path only (no finally).
finally_closes_mutant(conn, e) == conn # None /\ e = NoExc

\* lines 164-165: `finally: if connection:`, whatever exception e is in flight
finally_closes(conn, e) == conn # None

\* lines 114-123
DB_connect ==
    /\ pc = "connect"
    /\ stages' = Append(stages, "db")
    /\ dbCalls' = dbCalls + 1
    /\ \E fault \in FaultChoices :
        LET e == DbExc(fault, "connect") IN
        /\ dbFaults' = dbFaults + (IF fault THEN 1 ELSE 0)
        /\ callLog' = Append(callLog, Call("connect", e))
        /\ exc' = e
        /\ firstError' = IF e = NoExc THEN firstError ELSE FirstOf(e)
        /\ connection' = IF e = NoExc THEN "connection" ELSE None
        /\ txn' = IF e = NoExc THEN EmptyTxn ELSE txn
        /\ pc' = IF e = NoExc THEN "cursor" ELSE "db_except"
    /\ UNCHANGED <<environ, runs, config, result, raised, okStages, log, blob_name,
                   test_content, test_id, inserted_id, blobVars, tableExists, rows, seq,
                   nextUuid, blobFaults, blobCalls, reports>>

\* line 126
DB_cursor ==
    /\ pc = "cursor"
    /\ \E fault \in FaultChoices :
        LET e == DbExc(fault, "cursor") IN
        /\ dbFaults' = dbFaults + (IF fault THEN 1 ELSE 0)
        /\ callLog' = Append(callLog, Call("cursor", e))
        /\ exc' = e
        /\ firstError' = IF e = NoExc THEN firstError ELSE FirstOf(e)
        /\ pc' = IF e = NoExc THEN "execute_create" ELSE "db_except"
    /\ UNCHANGED <<environ, runs, config, result, raised, stages, okStages, log, blob_name,
                   test_content, connection, test_id, inserted_id, blobVars, dbVars,
                   nextUuid, blobFaults, blobCalls, dbCalls, reports>>

\* lines 129-137: the statement runs inside the connection's transaction, so
\* a table it creates exists for others only once the transaction commits.
DB_execute_create ==
    /\ pc = "execute_create"
    /\ \E fault \in FaultChoices :
        LET e == create_table_error(fault, tableExists \/ txn.createdTable) IN
        /\ dbFaults' = dbFaults + (IF fault THEN 1 ELSE 0)
        /\ callLog' = Append(callLog, Call("execute_create", e))
        /\ exc' = e
        /\ firstError' = IF e = NoExc THEN firstError ELSE FirstOf(e)
        /\ txn' = IF e = NoExc /\ ~tableExists THEN [txn EXCEPT !.createdTable = TRUE] ELSE txn
        /\ pc' = IF e = NoExc THEN "execute_insert" ELSE "db_except"
    /\ UNCHANGED <<environ, runs, config, result, raised, stages, okStages, log, blob_name,
                   test_content, connection, test_id, inserted_id, blobVars, tableExists,
                   rows, seq, nextUuid, blobFaults, blobCalls, dbCalls, reports>>

\* lines 140-149: the SERIAL column draws the sequence's next value, which a
\* later rollback does not give back.
DB_execute_insert ==
    /\ pc = "execute_insert"
    /\ nextUuid' = nextUuid + 1
    /\ test_id' = nextUuid + 1
    /\ \E fault \in FaultChoices :
        LET e == DbExc(fault, "execute_insert") IN
        /\ dbFaults' = dbFaults + (IF fault THEN 1 ELSE 0)
        /\ callLog' = Append(callLog, Call("execute_insert", e))
        /\ exc' = e
        /\ firstError' = IF e = NoExc THEN firstError ELSE FirstOf(e)
        /\ seq' = IF e = NoExc THEN seq + 1 ELSE seq
        /\ txn' = IF e = NoExc
                  THEN [txn EXCEPT !.rows = Append(@, [id |-> seq + 1, test_id |-> nextUuid + 1])]
                  ELSE txn
        /\ pc' = IF e = NoExc THEN "fetchone" ELSE "db_except"
    /\ UNCHANGED <<environ, runs, config, result, raised, stages, okStages, log, blob_name,
                   test_content, connection, inserted_id, blobVars, tableExists, rows,
                   blobFaults, blobCalls, dbCalls, reports>>

\* line 152: the id the INSERT ... RETURNING id gave back
DB_fetchone ==
    /\ pc = "fetchone"
    /\ \E fault \in FaultChoices :
        LET e == DbExc(fault, "fetchone") IN
        /\ dbFaults' = dbFaults + (IF fault THEN 1 ELSE 0)
        /\ callLog' = Append(callLog, Call("fetchone", e))
        /\ exc' = e
        /\ firstError' = IF e = NoExc THEN firstError ELSE FirstOf(e)
        /\ inserted_id' = IF e = NoExc THEN txn.rows[Len(txn.rows)].id ELSE inserted_id
        /\ pc' = IF e = NoExc THEN "commit" ELSE "db_except"
    /\ UNCHANGED <<environ, runs, config, result, raised, stages, okStages, log, blob_name,
                   test_content, connection, test_id, blobVars, dbVars,
                   nextUuid, blobFaults, blobCalls, dbCalls, reports>>

\* lines 155-157: commit, then `return` (which runs the finally clause)
DB_commit ==
    /\ pc = "commit"
    /\ \E fault \in FaultChoices :
        LET e == DbExc(fault, "commit") IN
        /\ dbFaults' = dbFaults + (IF fault THEN 1 ELSE 0)
        /\ callLog' = Append(callLog, Call("commit", e))
        /\ exc' = e
        /\ firstError' = IF e = NoExc THEN firstError ELSE FirstOf(e)
        /\ rows' = IF e = NoExc THEN rows \o txn.rows ELSE rows
        /\ tableExists' = IF e = NoExc THEN tableExists \/ txn.createdTable ELSE tableExists
        /\ txn' = IF e = NoExc THEN EmptyTxn ELSE txn
        /\ pc' = IF e = NoExc THEN "db_finally" ELSE "db_except"
    /\ UNCHANGED <<environ, runs, config, result, raised, stages, okStages, log, blob_name,
                   test_content, connection, test_id, inserted_id, blobVars, seq,
                   nextUuid, blobFaults, blobCalls, dbCalls, reports>>

\* lines 159-163: roll back when there is a connection, log, re-raise.  An
\* exception of rollback() itself replaces the one being handled and skips
\* line 162.
DB_except ==
    /\ pc = "db_except"
    /\ IF except_rolls_back(connection)
       THEN \E fault \in FaultChoices :
              LET e == DbExc(fault, "rollback") IN
              /\ dbFaults' = dbFaults + (IF fault THEN 1 ELSE 0)
              /\ callLog' = Append(callLog, Call("rollback", e))
              /\ txn' = IF e = NoExc THEN EmptyTxn ELSE txn
              /\ exc' = IF e = NoExc THEN exc ELSE e
              /\ log' = IF e = NoExc THEN Append(log, LogRec("error", exc)) ELSE log
       ELSE /\ log' = Append(log, LogRec("error", exc))
            /\ UNCHANGED <<dbFaults, callLog, txn, exc>>
    /\ pc' = "db_finally"
    /\ UNCHANGED <<environ, runs, config, result, raised, firstError, stages, okStages,
                   blob_name, test_content, connection, test_id, inserted_id, blobVars,
                   tableExists, rows, seq, nextUuid, blobFaults, blobCalls, dbCalls, reports>>

\* lines 164-166: close when there is a connection; an exception of close()
\* replaces the pending return or the exception in flight.  The server drops
\* the uncommitted work of a session that ends.
DB_finally ==
    /\ pc = "db_finally"
    /\ IF finally_closes(connection, exc)
       THEN \E fault \in FaultChoices :
              LET e == DbExc(fault, "close")
                  out == IF e = NoExc THEN exc ELSE e IN
              /\ dbFaults' = dbFaults + (IF fault THEN 1 ELSE 0)
              /\ callLog' = Append(callLog, Call("close", e))
              /\ txn' = IF e = NoExc THEN EmptyTxn ELSE txn
              /\ exc' = out
              /\ firstError' = IF e = NoExc THEN firstError ELSE FirstOf(e)
              /\ pc' = main_next("db", out)
              /\ okStages' = IF out = NoExc THEN okStages \cup {"db"} ELSE okStages
              /\ reports' = IF out = NoExc THEN Append(reports, inserted_id) ELSE reports
       ELSE /\ pc' = main_next("db", exc)
            /\ okStages' = IF exc = NoExc THEN okStages \cup {"db"} ELSE okStages
            /\ reports' = IF exc = NoExc THEN Append(reports, inserted_id) ELSE reports
            /\ UNCHANGED <<dbFaults, callLog, txn, exc, firstError>>
    /\ UNCHANGED <<environ, runs, config, result, raised, stages, log, blob_name,
                   test_content, connection, test_id, inserted_id, blobVars,
                   tableExists, rows, seq, nextUuid, blobFaults, blobCalls, dbCalls>>

(***************************************************************************)
(* Specification                                                           *)
(***************************************************************************)
Next ==
    \/ Main_get_config
    \/ Blob_from_connection_string
    \/ Blob_get_container_client
    \/ Blob_create_container
    \/ Blob_get_blob_client
    \/ Blob_upload_blob
    \/ Blob_except
    \/ DB_connect
    \/ DB_cursor
    \/ DB_execute_create
    \/ DB_execute_insert
    \/ DB_fetchone
    \/ DB_commit
    \/ DB_except
    \/ DB_finally
    \/ Main_return
    \/ Main_except
    \/ StartRun

Spec == Init /\ [][Next]_vars

TypeOK ==
    /\ environ \in Environs
    /\ runs \in 1..MaxRuns
    /\ result \in {None, "Success"}
    /\ blobFaults + dbFaults <= MaxFaults
    /\ connection \in {None, "connection"}
    /\ Len(rows) <= runs /\ seq <= runs

(***************************************************************************)
(* Vocabulary of the properties                                            *)
(***************************************************************************)
Range(f) == {f[i] : i \in DOMAIN f}
OpsCalled == {callLog[i].op : i \in DOMAIN callLog}
Returned(op) == \E i \in DOMAIN callLog : callLog[i] = Call(op, NoExc)
Failed(op) == \E i \in DOMAIN callLog : callLog[i].op = op /\ callLog[i].err # NoExc

\* main()'s call chain is past the object-store probe / the database probe.
BlobPcs == {"from_connection_string", "get_container_client", "create_container",
            "get_blob_client", "upload_blob", "blob_except"}
DbPcs == {"connect", "cursor", "execute_create", "execute_insert", "fetchone", "commit",
          "db_except", "db_finally"}
BlobExited == "blob" \in Range(stages) /\ pc \notin BlobPcs
DbExited == "db" \in Range(stages) /\ pc \notin DbPcs

RequiredNames == EnvNames \ {"POSTGRES_PORT"}
ConfigKeys == {"storage_connection_string", "postgres_host", "postgres_port",
               "postgres_db", "postgres_user", "postgres_password"}

(***************************************************************************)
(* C1                                                                      *)
(***************************************************************************)
\* C1: in every run the stages are entered at most once each and in the order
\* config, blob, db; an object-store call is made only after
\* get_config_from_env returned normally, a database call only after
\* upload_test_file_to_blob returned normally, and no object-store call
\* follows a database call.
C1_StagesInOrder ==
    /\ \E k \in 0..3 : stages = SubSeq(<<"config", "blob", "db">>, 1, k)
    /\ OpsCalled \cap BlobOps # {} => "config" \in okStages
    /\ OpsCalled \cap DbOps # {} => "blob" \in okStages
    /\ \A i, j \in DOMAIN callLog :
           (i < j /\ callLog[i].op \in DbOps) => callLog[j].op \in DbOps

\* A run whose object-store probe failed has ended without any database call.
C1_Witness ==
    /\ pc = "done"
    /\ "blob" \in Range(stages) /\ "blob" \notin okStages
    /\ OpsCalled \cap DbOps = {}
    /\ raised # NoExc

(***************************************************************************)
(* C2                                                                      *)
(***************************************************************************)
\* C2: main() returns "Success" exactly when the three stages returned
\* normally; otherwise it returns nothing and the exception that propagates
\* out of it is the first one raised in the run, unchanged.
C2_FirstErrorPropagates ==
    pc = "done" =>
        /\ (result = "Success") <=> (okStages = {"config", "blob", "db"})
        /\ result # "Success" => (result = None /\ raised # NoExc /\ raised = firstError)
        /\ result = "Success" => raised = NoExc

(***************************************************************************)
(* C3                                                                      *)
(***************************************************************************)
\* C3: once test_postgres_connection has exited, close() has been invoked if
\* connect returned a connection, whichever later call failed or none; if
\* connect failed, neither rollback() nor close() has been invoked.
C3_CloseOnEveryExit ==
    /\ (DbExited /\ Returned("connect")) => "close" \in OpsCalled
    /\ Failed("connect") => OpsCalled \cap {"rollback", "close"} = {}

\* The probe has exited after its rollback() itself failed, and close() was invoked.
C3_Witness ==
    /\ DbExited
    /\ Returned("connect") /\ Failed("execute_insert") /\ Failed("rollback")
    /\ "close" \in OpsCalled

(***************************************************************************)
(* C4                                                                      *)
(***************************************************************************)
\* C4: when test_postgres_connection has exited with a connection opened and
\* commit not completed, rollback() was invoked, and before close(); the
\* exception is in flight only after that; no committed row of test_table is
\* the one this call inserted; close() has been invoked on the connection.
C4_RollbackBeforeClose ==
    (DbExited /\ Returned("connect") /\ ~Returned("commit")) =>
        /\ \E i, j \in DOMAIN callLog :
               i < j /\ callLog[i].op = "rollback" /\ callLog[j].op = "close"
        /\ \A j \in DOMAIN callLog :
               callLog[j].op = "close" =>
                   \E i \in 1..(j - 1) : callLog[i].op = "rollback"
        /\ "db" \notin okStages /\ exc # NoExc
        /\ \A i \in DOMAIN rows : rows[i].test_id # test_id

\* The probe failed after its INSERT had executed (at the fetch of the id).
C4_Witness ==
    /\ DbExited
    /\ Returned("execute_insert") /\ Failed("fetchone")
    /\ Returned("rollback") /\ Returned("close")
    /\ seq > Len(rows)

(***************************************************************************)
(* C5                                                                      *)
(***************************************************************************)
\* C5: once get_config_from_env has run on an environment in which some of
\* the five required variables are absent or empty, it has failed and its
\* message names every one of them.
C5_NamesEveryMissing ==
    LET missing == {n \in RequiredNames : environ[n] = None \/ environ[n] = ""} IN
    (pc # "get_config" /\ missing # {}) =>
        /\ "config" \notin okStages
        /\ firstError.type = "ValueError"
        /\ missing \subseteq Range(firstError.names)

(***************************************************************************)
(* C6                                                                      *)
(***************************************************************************)
\* C6: a step of get_config_from_env on an environment with the five required
\* variables non-empty raises nothing, leaves the environment as it is, and
\* yields a record of exactly six fields, each the environment's value, with
\* postgres_port '5432' when POSTGRES_PORT is unset.
C6_ConfigFromEnv ==
    [][(pc = "get_config" /\ \A n \in RequiredNames : environ[n] \notin {None, ""}) =>
          /\ environ' = environ
          /\ exc' = NoExc /\ "config" \in okStages' /\ pc' # "main_except"
          /\ DOMAIN config' = ConfigKeys
          /\ config'.storage_connection_string = environ["AZURE_STORAGE_CONNECTION_STRING"]
          /\ config'.postgres_host = environ["POSTGRES_HOST"]
          /\ config'.postgres_db = environ["POSTGRES_DB"]
          /\ config'.postgres_user = environ["POSTGRES_USER"]
          /\ config'.postgres_password = environ["POSTGRES_PASSWORD"]
          /\ config'.postgres_port = IF environ["POSTGRES_PORT"] = None
                                     THEN "5432" ELSE environ["POSTGRES_PORT"]]_vars

\* Config loading returned with POSTGRES_PORT unset and the port defaulted.
C6_Witness ==
    /\ "config" \in okStages
    /\ environ["POSTGRES_PORT"] = None
    /\ config.postgres_port = "5432"
    /\ config.postgres_host = "db.example"

(***************************************************************************)
(* C7                                                                      *)
(***************************************************************************)
\* C7: whenever an object-store call has raised anything but the container
\* already existing, the probe makes no further call, is on its way out with
\* that very exception (which it logs), and does not return its success
\* description.
C7_OnlyAlreadyExistsTolerated ==
    \A i \in DOMAIN callLog :
        (callLog[i].op \in BlobOps
            /\ callLog[i].err.type \notin {"NoExc", "ResourceExistsError"}) =>
            /\ i = Len(callLog)
            /\ pc \in {"blob_except", "main_except", "done"}
            /\ exc = callLog[i].err
            /\ "blob" \notin okStages

(***************************************************************************)
(* C8                                                                      *)
(***************************************************************************)
\* C8: while no object-store call has met a fault, no call of
\* upload_test_file_to_blob fails; test-container has been created at most
\* once, later attempts being swallowed; and after n calls the container
\* holds n blobs with n distinct names test-file-<id>.txt, one per call.
C8_RepeatedUploads ==
    blobFaults = 0 =>
        /\ pc # "blob_except"
        /\ BlobExited => "blob" \in okStages
        /\ \A i \in DOMAIN callLog :
               callLog[i].op \in BlobOps /\ callLog[i].err # NoExc =>
                   /\ callLog[i] = Call("create_container",
                                        Exc("ResourceExistsError", "create_container", <<>>))
                   /\ blobCalls > 1
        /\ containerCreated <= 1
        /\ ("create_container" \in OpsCalled \/ blobs # {}) => containerCreated = 1
        /\ Cardinality(blobs) = (IF pc \in BlobPcs \ {"from_connection_string"}
                                 THEN blobCalls - 1 ELSE blobCalls)
        /\ Cardinality({b.name : b \in blobs}) = Cardinality(blobs)
        /\ \A b \in blobs : b.name.prefix = "test-file-" /\ b.name.suffix = ".txt"
        /\ BlobExited =>
               Cardinality({i \in DOMAIN callLog : callLog[i].op = "upload_blob"}) = 1

\* Two calls went through: the second creation attempt was swallowed and two
\* distinct blobs are present.
C8_Witness ==
    /\ blobFaults = 0 /\ blobCalls = 2 /\ BlobExited
    /\ Failed("create_container")
    /\ containerCreated = 1
    /\ Cardinality({b.name : b \in blobs}) = 2

(***************************************************************************)
(* C9                                                                      *)
(***************************************************************************)
\* C9: no call ever fails for test_table already existing; the committed rows
\* carry strictly increasing identifiers in commit order; every call that
\* returned reported the identifier of a row of its own, committed exactly
\* once, and the reported identifiers strictly increase; while no database
\* call has met a fault every call succeeds, so that between calls the number
\* of committed rows is the number of calls.
C9_RepeatedInserts ==
    /\ \A i \in DOMAIN callLog : callLog[i].err.type # "DuplicateTable"
    /\ \A i, j \in DOMAIN rows : i < j => rows[i].id < rows[j].id
    /\ \A i, j \in DOMAIN reports : i < j => reports[i] < reports[j]
    /\ \A k \in DOMAIN reports :
           Cardinality({i \in DOMAIN rows : rows[i].id = reports[k]}) = 1
    /\ "db" \in okStages =>
           /\ reports[Len(reports)] = inserted_id
           /\ Cardinality({i \in DOMAIN rows : rows[i].test_id = test_id}) = 1
           /\ \A i \in DOMAIN rows : rows[i].test_id = test_id => rows[i].id = inserted_id
    /\ Len(reports) <= Len(rows)
    /\ dbFaults = 0 =>
           /\ pc # "db_except"
           /\ DbExited => "db" \in okStages
           /\ pc \notin DbPcs => (Len(rows) = dbCalls /\ Len(reports) = dbCalls)

\* Two calls have succeeded against a database without faults, the second
\* finding test_table in place.
C9_Witness ==
    /\ dbFaults = 0 /\ dbCalls = 2 /\ pc = "done" /\ "db" \in okStages
    /\ Len(rows) = 2 /\ reports = <<1, 2>>

(***************************************************************************)
(* C10                                                                     *)
(***************************************************************************)
DbFailedAfterBlob == pc = "done" /\ "blob" \in okStages /\ DbExited /\ "db" \notin okStages

\* C10 (as stated): when a run ends with the object-store probe succeeded and
\* the database probe failed, the run's blob is still present, no
\* object-store call followed the database calls, no row of the run is
\* committed, and main() raised instead of returning "Success".
C10_NoCompensation ==
    DbFailedAfterBlob =>
        /\ [name |-> blob_name, content |-> test_content] \in blobs
        /\ callLog[Len(callLog)].op \in DbOps
        /\ \A i \in DOMAIN rows : rows[i].test_id # test_id
        /\ raised # NoExc /\ result # "Success"

\* C10 (amended): as above, except that a row of the run is committed exactly
\* when commit() had returned normally, the probe failing in close() afterwards.
C10_NoCompensationUnlessCommitted ==
    DbFailedAfterBlob =>
        /\ [name |-> blob_name, content |-> test_content] \in blobs
        /\ callLog[Len(callLog)].op \in DbOps
        /\ (\E i \in DOMAIN rows : rows[i].test_id = test_id)
               <=> (Returned("commit") /\ Failed("close"))
        /\ raised # NoExc /\ result # "Success"

\* A run whose database probe failed at the INSERT keeps its blob and commits nothing.
C10_Witness ==
    /\ DbFailedAfterBlob
    /\ Failed("execute_insert")
    /\ [name |-> blob_name, content |-> test_content] \in blobs
    /\ raised = Exc("OperationalError", "execute_insert", <<>>)

=============================================================================
